---- MODULE Spec2Model ----
(***************************************************************************)
(* A model of src/core/OctahedronPolygon.cpp (Stellarium): the plane       *)
(* splitter, the octahedral decomposition, the tessellation driver, the    *)
(* bounding cap and the boolean operations of OctahedronPolygon.           *)
(*                                                                         *)
(* Number model.  A Vec3d is an integer triple.  A point of the sphere is  *)
(* held as an integer direction vector (the unit vector is v/|v|); the     *)
(* splitter only reads signs, cross products and plane intersections, all  *)
(* of which are invariant under a positive scaling.  A point projected on  *)
(* an octahedron face is the pair (vertex, den) standing for vertex/den.   *)
(* A normalised vector (the cached vertex arrays, capN) is its direction   *)
(* in lowest terms, or not a number; capD and the dot products of unit     *)
(* vectors are fixed-point numbers with Scale units for 1.0.               *)
(***************************************************************************)
EXTENDS Integers, Sequences, FiniteSets, TLC

VARIABLES
    poly,           \* the OctahedronPolygon objects of the program, by name
    inputContour,   \* SubContour handed to splitContourByPlan / appendSubContour
    onLine,         \* axis handed to splitContourByPlan
    result,         \* QVector<SubContour> result[2] filled by splitContourByPlan
    octSides,       \* sides of a polygon after appendSubContour(inputContour)
    pc              \* position of the splitting run

vars == <<poly, inputContour, onLine, result, octSides, pc>>

----------------------------------------------------------------------------
(* Bounds of the model. *)

\* Longest input contour handed to the splitter.
MaxLen == 3

----------------------------------------------------------------------------
(* Vec3d algebra. *)

Abs(x) == IF x < 0 THEN -x ELSE x

Min(a, b) == IF a <= b THEN a ELSE b

RECURSIVE Gcd(_, _)
Gcd(a, b) == IF b = 0 THEN a ELSE Gcd(b, a % b)

Dot(a, b) == a[1] * b[1] + a[2] * b[2] + a[3] * b[3]

Cross(a, b) ==
    << a[2] * b[3] - a[3] * b[2],
       a[3] * b[1] - a[1] * b[3],
       a[1] * b[2] - a[2] * b[1] >>

VecAdd(a, b) == << a[1] + b[1], a[2] + b[2], a[3] + b[3] >>

VecScale(k, a) == << k * a[1], k * a[2], k * a[3] >>

ZeroVec == << 0, 0, 0 >>

\* The direction of v in lowest terms: the model's unit vector of a direction.
NormalizeDir(v) ==
    LET g == Gcd(Gcd(Abs(v[1]), Abs(v[2])), Abs(v[3]))
    IN  IF g = 0 THEN v ELSE << v[1] \div g, v[2] \div g, v[3] \div g >>

\* const Vec3d OctahedronPolygon::sideDirections[8], indexed 0..7.
sideDirections(i) ==
    CASE i = 0 -> << 1, 1, 1 >>
      [] i = 1 -> << 1, 1, -1 >>
      [] i = 2 -> << -1, 1, 1 >>
      [] i = 3 -> << -1, 1, -1 >>
      [] i = 4 -> << 1, -1, 1 >>
      [] i = 5 -> << 1, -1, -1 >>
      [] i = 6 -> << -1, -1, 1 >>
      [] i = 7 -> << -1, -1, -1 >>

Faces == 0 .. 7

----------------------------------------------------------------------------
(* EdgeVertex and SubContour.                                              *)
(* src is a provenance tag, not a field of the program: the index of the   *)
(* input vertex an EdgeVertex was copied from, 0 for a vertex the          *)
(* algorithm synthesized.                                                  *)

EdgeVertex(v, flag) == [vertex |-> v, den |-> 1, edgeFlag |-> flag, src |-> 0]

\* SubContour::SubContour(const QVector<Vec3d>& vertices, bool closed)
SubContour(vertices, closed) ==
    [i \in 1 .. Len(vertices) |->
        [vertex   |-> vertices[i],
         den      |-> 1,
         edgeFlag |-> (closed \/ (i # 1 /\ i # Len(vertices))),
         src      |-> i]]

RECURSIVE Reverse(_)
Reverse(s) == IF s = << >> THEN << >> ELSE Append(Reverse(Tail(s)), Head(s))

\* SubContour SubContour::reversed() const
reversed(c) == Reverse(c)

Last(s) == s[Len(s)]

SetLastDoubled(c) ==
    IF c = << >> THEN c
    ELSE Append([c EXCEPT ![Len(c)].edgeFlag = FALSE], [c[Len(c)] EXCEPT !.edgeFlag = FALSE])

\* c.last().edgeFlag = false
SetLastFlagFalse(c) ==
    IF c = << >> THEN c ELSE [c EXCEPT ![Len(c)].edgeFlag = FALSE]

----------------------------------------------------------------------------
(* The plane splitter. *)

getSideStrict(v, line) == IF v[line + 1] > 0 THEN 0 ELSE 1

\* static int getSide(const Vec3d& v, int onLine)
getSide(v, line) == IF v[line + 1] >= 0 THEN 0 ELSE 1

\* greatCircleIntersection(p1, p2, plan, ok) of StelSphereGeometry: the point
\* where the arc p1-p2 meets the coordinate plane of axis line; ok is false
\* when the endpoints do not define a plane.  Only called at a crossing, where
\* the endpoints lie on different sides, so the point between them is the
\* positive combination |p2[line]| p1 + |p1[line]| p2.
greatCircleIntersection(p1, p2, line) ==
    LET u == VecAdd(VecScale(Abs(p2[line + 1]), p1), VecScale(Abs(p1[line + 1]), p2))
    IN  [ok |-> Cross(p1, p2) # ZeroVec, v |-> NormalizeDir(u)]

\* result[q] << c
Push(res, q, c) == [res EXCEPT ![q + 1] = Append(@, c)]

CutVertexFlagged(v) == EdgeVertex(v, TRUE)

\* EdgeVertex(tmpVertex, false): a cut vertex
CutVertex(v) == EdgeVertex(v, FALSE)

\* The locals of splitContourByPlan before its first loop.
SplitInit(line, contour, res) ==
    [i                    |-> 0,
     previousQuadrant     |-> getSide(contour[1].vertex, line),
     currentQuadrant      |-> 0,
     previousVertex       |-> contour[1],
     currentSubContour    |-> << >>,
     unfinishedSubContour |-> << >>,
     result               |-> res]

\* First loop: the vertices up to the first crossing go to unfinishedSubContour.
RECURSIVE FirstLoop(_, _, _)
FirstLoop(line, contour, st) ==
    IF st.i >= Len(contour) THEN st
    ELSE
      LET currentVertex == contour[st.i + 1]
          currentQuadrant == getSide(currentVertex.vertex, line)
      IN  IF currentQuadrant = st.previousQuadrant
          THEN FirstLoop(line, contour,
                   [st EXCEPT !.unfinishedSubContour = Append(@, currentVertex),
                              !.currentQuadrant = currentQuadrant,
                              !.previousVertex = currentVertex,
                              !.i = @ + 1])
          ELSE
            LET g == greatCircleIntersection(st.previousVertex.vertex,
                                             currentVertex.vertex, line)
            IN  IF ~g.ok
                THEN [st EXCEPT !.currentQuadrant = currentQuadrant,
                                !.previousQuadrant = currentQuadrant]
                ELSE [st EXCEPT !.unfinishedSubContour = Append(@, CutVertex(g.v)),
                                !.currentSubContour = Append(@, CutVertex(g.v)),
                                !.currentQuadrant = currentQuadrant,
                                !.previousQuadrant = currentQuadrant]

\* Second loop: the vertices from the first crossing to the end of the input.
RECURSIVE SecondLoop(_, _, _)
SecondLoop(line, contour, st) ==
    IF st.i >= Len(contour) THEN st
    ELSE
      LET currentVertex == contour[st.i + 1]
          currentQuadrant == getSide(currentVertex.vertex, line)
      IN  IF currentQuadrant = st.previousQuadrant
          THEN SecondLoop(line, contour,
                   [st EXCEPT !.currentSubContour = Append(@, currentVertex),
                              !.currentQuadrant = currentQuadrant,
                              !.previousVertex = currentVertex,
                              !.i = @ + 1])
          ELSE
            LET g == greatCircleIntersection(st.previousVertex.vertex,
                                             currentVertex.vertex, line)
                closed == IF ~g.ok
                          THEN SetLastFlagFalse(st.currentSubContour)
                          ELSE Append(st.currentSubContour, CutVertex(g.v))
                opened == IF ~g.ok
                          THEN << [currentVertex EXCEPT !.edgeFlag = FALSE] >>
                          ELSE << CutVertex(g.v), currentVertex >>
            IN  SecondLoop(line, contour,
                   [st EXCEPT !.result = Push(@, st.previousQuadrant, closed),
                              !.currentSubContour = opened,
                              !.currentQuadrant = currentQuadrant,
                              !.previousQuadrant = currentQuadrant,
                              !.previousVertex = currentVertex,
                              !.i = @ + 1])

ClosingSegmentSplitAtStart(line, contour, st) ==
    LET previousQuadrant == st.currentQuadrant
        currentQuadrant == getSide(contour[1].vertex, line)
        g == greatCircleIntersection(st.previousVertex.vertex, contour[1].vertex, line)
        crossed == currentQuadrant # previousQuadrant
        res1 == IF st.currentSubContour # << >>
                THEN Push(st.result, previousQuadrant,
                          IF ~crossed THEN st.currentSubContour
                          ELSE IF ~g.ok THEN SetLastFlagFalse(st.currentSubContour)
                          ELSE Append(st.currentSubContour, CutVertex(g.v)))
                ELSE st.result
        tail == IF crossed /\ g.ok THEN << CutVertex(g.v) >> ELSE << >>
    IN  Push(res1, currentQuadrant, tail \o st.unfinishedSubContour)

\* The segment from the last vertex back to the first, and the final append of
\* the tail accumulator followed by the unfinished one.
ClosingSegment(line, contour, st) ==
    LET previousQuadrant == st.currentQuadrant
        currentQuadrant == getSide(contour[1].vertex, line)
        g == greatCircleIntersection(st.previousVertex.vertex, contour[1].vertex, line)
        crossed == currentQuadrant # previousQuadrant
        res1 == IF ~crossed THEN st.result
                ELSE IF ~g.ok
                THEN Push(st.result, previousQuadrant,
                          SetLastFlagFalse(st.currentSubContour))
                ELSE Push(st.result, previousQuadrant,
                          Append(st.currentSubContour, CutVertex(g.v)))
        cur1 == IF ~crossed THEN st.currentSubContour
                ELSE IF ~g.ok THEN << >>
                ELSE << CutVertex(g.v) >>
    IN  Push(res1, currentQuadrant, cur1 \o st.unfinishedSubContour)

\* void OctahedronPolygon::splitContourByPlan(int onLine,
\*     const SubContour& inputContour, QVector<SubContour> result[2])
\* The value is result[2] after the call.
splitContourByPlan(line, contour, res) ==
    LET st1 == FirstLoop(line, contour, SplitInit(line, contour, res))
        st2 == SecondLoop(line, contour, st1)
    IN  ClosingSegment(line, contour, st2)

----------------------------------------------------------------------------
(* The octahedral decomposition. *)

EmptyResult == << << >>, << >> >>

EmptySides == [i \in Faces |-> << >>]

\* foreach (const SubContour& subContour, contours)
\*     splitContourByPlan(onLine, subContour, result);
RECURSIVE SplitAll(_, _, _)
SplitAll(line, contours, res) ==
    IF contours = << >> THEN res
    ELSE SplitAll(line, Tail(contours), splitContourByPlan(line, Head(contours), res))

\* Pole repair of one sub-contour of splittedVertices2[c].
PoleRepair(tmpSubContour) ==
    IF Last(tmpSubContour).edgeFlag = TRUE THEN tmpSubContour
    ELSE
      LET v == Cross(tmpSubContour[1].vertex, Last(tmpSubContour).vertex)
      IN  IF v[3] > 0 THEN Append(tmpSubContour, EdgeVertex(<< 0, 0, -1 >>, FALSE))
          ELSE IF v[3] < 0 THEN Append(tmpSubContour, EdgeVertex(<< 0, 0, 1 >>, FALSE))
          ELSE tmpSubContour

GroupIndexSwapped(ySide, xSide) == xSide * 2 + ySide

\* splittedVertices2 for the y-side 0, splittedVertices2+2 for the y-side 1:
\* the index c of the group of a sub-contour.
GroupIndex(ySide, xSide) == ySide * 2 + xSide

SideIndexSwapped(c, zSide) == c + 4 * zSide

\* resultSides.data()+c*2: the index of the face of a sub-contour of group c.
SideIndex(c, zSide) == c * 2 + zSide

\* v->vertex *= 1./(sideDirections[i]*v->vertex); v->vertex[2]=0.;
ProjectVertex(i, ev) ==
    LET d == Dot(sideDirections(i), ev.vertex)
        s == IF d < 0 THEN -1 ELSE 1
    IN  [ev EXCEPT !.vertex = << s * ev.vertex[1], s * ev.vertex[2], 0 >>,
                   !.den = s * d * ev.den]

\* void OctahedronPolygon::projectOnOctahedron(inSides)
projectOnOctahedron(inSides) ==
    [i \in Faces |->
        [k \in 1 .. Len(inSides[i]) |->
            [j \in 1 .. Len(inSides[i][k]) |-> ProjectVertex(i, inSides[i][k][j])]]]

\* void OctahedronPolygon::appendSubContour(const SubContour& inContour)
\* The value is sides after the call.
appendSubContour(sides, inContour) ==
    LET splittedContour1 == splitContourByPlan(1, inContour, EmptyResult)
        splittedVertices2 ==
            [c \in 0 .. 3 |->
                LET ySide == CHOOSE y \in 0 .. 1 : \E x \in 0 .. 1 : GroupIndex(y, x) = c
                    xSide == CHOOSE x \in 0 .. 1 : GroupIndex(ySide, x) = c
                IN  SplitAll(0, splittedContour1[ySide + 1], EmptyResult)[xSide + 1]]
        repaired ==
            [c \in 0 .. 3 |->
                [k \in 1 .. Len(splittedVertices2[c]) |-> PoleRepair(splittedVertices2[c][k])]]
        resultSides ==
            [i \in Faces |->
                LET c == CHOOSE g \in 0 .. 3 : \E z \in 0 .. 1 : SideIndex(g, z) = i
                    zSide == CHOOSE z \in 0 .. 1 : SideIndex(c, z) = i
                IN  SplitAll(2, repaired[c], EmptyResult)[zSide + 1]]
        projected == projectOnOctahedron(resultSides)
    IN  [i \in Faces |-> sides[i] \o projected[i]]

----------------------------------------------------------------------------
(* Unit vectors and fixed-point numbers.  A unit vector is the record       *)
(* [nan, v]: the direction v in lowest terms, or not a number.  A scalar    *)
(* (capD, a dot product of unit vectors) is a fixed-point number with Scale *)
(* units for 1.0; a product of two scalars has Scale * Scale units for 1.0. *)
(* Divisions round toward zero.                                             *)

Scale == 100

Sign(x) == IF x > 0 THEN 1 ELSE IF x < 0 THEN -1 ELSE 0

\* x / y rounded toward zero (y > 0).
Trunc(x, y) == Sign(x) * (Abs(x) \div y)

RECURSIVE IsqrtIter(_, _, _)
IsqrtIter(n, lo, hi) ==
    IF lo >= hi THEN lo
    ELSE LET mid == (lo + hi + 1) \div 2
         IN  IF mid * mid <= n THEN IsqrtIter(n, mid, hi) ELSE IsqrtIter(n, lo, mid - 1)

\* The integer part of the square root of n.
Isqrt(n) == IsqrtIter(n, 0, Min(n, 46340))

\* The value of a Vec3d that is not a number: 0 * (1 / sqrt(0)).
NaNVec == [nan |-> TRUE, v |-> ZeroVec]

\* Vec3d::normalize: v * (1 / sqrt(v*v)).
normalize(v) == IF v = ZeroVec THEN NaNVec ELSE [nan |-> FALSE, v |-> NormalizeDir(v)]

\* The direction v with coordinates of at most four digits.
Shrink(v) ==
    LET big == IF Abs(v[1]) >= Abs(v[2]) /\ Abs(v[1]) >= Abs(v[3]) THEN Abs(v[1])
               ELSE IF Abs(v[2]) >= Abs(v[3]) THEN Abs(v[2]) ELSE Abs(v[3])
        k == (big \div 1000) + 1
    IN  IF big <= 1000 THEN v ELSE << Trunc(v[1], k), Trunc(v[2], k), Trunc(v[3], k) >>

\* The unit vector of the direction v as a fixed-point Vec3d.
FixedUnit(v) ==
    LET w == Shrink(v)
        len == Isqrt(Dot(w, w) * 100)
    IN  << Trunc(Scale * w[1] * 10, len), Trunc(Scale * w[2] * 10, len),
           Trunc(Scale * w[3] * 10, len) >>

\* The dot product of the unit vectors of the directions a and b, with unit
\* units for 1.0.  It is exactly unit for a = b and -unit for a = -b.
UnitDot(a, b, unit) ==
    IF a = b THEN unit
    ELSE IF a = VecScale(-1, b) THEN -unit
    ELSE Trunc(unit * Dot(FixedUnit(a), FixedUnit(b)), Scale * Scale)

----------------------------------------------------------------------------
(* The bounding cap predicates.  n1, n2 are unit vectors, d1, d2 scalars;   *)
(* a has Scale * Scale units for 1.0.  A comparison with a NaN is false.    *)

\* inline bool intersectsBoundingCap(n1, d1, n2, d2)
intersectsBoundingCap(n1, d1, n2, d2) ==
    LET a == d1 * d2 - UnitDot(n1.v, n2.v, Scale * Scale)
        isNum == ~n1.nan /\ ~n2.nan
    IN  \/ d1 + d2 <= 0
        \/ isNum /\ a <= 0
        \/ isNum /\ a <= Scale * Scale
                 /\ a * a <= (Scale * Scale - d1 * d1) * (Scale * Scale - d2 * d2)

\* inline bool containsBoundingCap(n1, d1, n2, d2)
containsBoundingCap(n1, d1, n2, d2) ==
    LET a == UnitDot(n1.v, n2.v, Scale * Scale) - d1 * d2
        isNum == ~n1.nan /\ ~n2.nan
    IN  /\ d1 <= d1
        /\ \/ isNum /\ a >= Scale * Scale
           \/ isNum /\ a >= 0
                    /\ a * a >= (Scale * Scale - d1 * d1) * (Scale * Scale - d2 * d2)

----------------------------------------------------------------------------
(* The planar tessellator (GLUES), by its contract.  In the runs of the     *)
(* polygon machine below every contour of a face bounds a convex cell, and  *)
(* two contours of a face bound the same cell or disjoint cells: the        *)
(* winding number of a cell is the sum of the orientations of the contours  *)
(* that bound it, seen along the normal handed to the tessellator.          *)

\* gluesTessNormal(tess, 0., 0., (sidenb%2==0 ? -1. : 1.))
TessNormalZ(sidenb) == IF sidenb % 2 = 0 THEN -1 ELSE 1

\* The planar point vertex/den in lowest terms.
Pt(ev) ==
    LET g == Gcd(Gcd(Abs(ev.vertex[1]), Abs(ev.vertex[2])), Abs(ev.den))
    IN  IF g = 0 THEN << ev.vertex[1], ev.vertex[2], ev.den >>
        ELSE << ev.vertex[1] \div g, ev.vertex[2] \div g, ev.den \div g >>

\* (b - a) x (c - a) in the plane, times a positive factor.
Cross2D(a, b, c) ==
    (b[1] * a[3] - a[1] * b[3]) * (c[2] * a[3] - a[2] * c[3])
      - (b[2] * a[3] - a[2] * b[3]) * (c[1] * a[3] - a[1] * c[3])

RECURSIVE FanArea(_, _)
\* The sign-carrying area of the convex contour c, as a fan from its first vertex.
FanArea(c, k) ==
    IF k + 1 > Len(c) THEN 0
    ELSE Sign(Cross2D(Pt(c[1]), Pt(c[k]), Pt(c[k + 1]))) + FanArea(c, k + 1)

\* +1 for a contour counter-clockwise about the tessellator's normal, -1 for a
\* clockwise one, 0 for a degenerate one.
WindingOfContour(c, sidenb) == Sign(FanArea(c, 2)) * TessNormalZ(sidenb)

CellOf(c) == { Pt(c[j]) : j \in 1 .. Len(c) }

RECURSIVE WindingAt(_, _, _)
WindingAt(contours, sidenb, cell) ==
    IF contours = << >> THEN 0
    ELSE (IF CellOf(Head(contours)) = cell THEN WindingOfContour(Head(contours), sidenb) ELSE 0)
           + WindingAt(Tail(contours), sidenb, cell)

\* GLUES_TESS_WINDING_POSITIVE and GLUES_TESS_WINDING_ABS_GEQ_TWO
Keeps(windingRule, w) ==
    IF windingRule = "WindingPositive" THEN w >= 1 ELSE Abs(w) >= 2

\* combineLineLoopCallback: the flag of a merged vertex is the disjunction of
\* the flags of the vertices merged into it.
combinedFlag(contours, point) ==
    \E k \in 1 .. Len(contours) : \E j \in 1 .. Len(contours[k]) :
        Pt(contours[k][j]) = point /\ contours[k][j].edgeFlag

\* The boundary loop of the cell of contours[k], counter-clockwise about the normal.
LoopOf(contours, sidenb, k) ==
    LET c == contours[k]
        base == IF WindingOfContour(c, sidenb) >= 0 THEN c ELSE Reverse(c)
    IN  [j \in 1 .. Len(base) |->
            [vertex |-> base[j].vertex, den |-> base[j].den,
             edgeFlag |-> combinedFlag(contours, Pt(base[j])), src |-> 0]]

RECURSIVE LoopsFrom(_, _, _, _)
LoopsFrom(contours, sidenb, windingRule, k) ==
    IF k > Len(contours) THEN << >>
    ELSE
      LET cell == CellOf(contours[k])
          first == \A m \in 1 .. k - 1 : CellOf(contours[m]) # cell
          rest == LoopsFrom(contours, sidenb, windingRule, k + 1)
      IN  IF first /\ Keeps(windingRule, WindingAt(contours, sidenb, cell))
          THEN << LoopOf(contours, sidenb, k) >> \o rest
          ELSE rest

\* QVector<SubContour> OctahedronPolygon::tesselateOneSideLineLoop(tess, sidenb)
tesselateOneSideLineLoop(contours, sidenb, windingRule) ==
    LoopsFrom(contours, sidenb, windingRule, 1)

RECURSIVE FanTriangles(_, _)
FanTriangles(loop, k) ==
    IF k + 1 > Len(loop) THEN << >>
    ELSE << loop[1], loop[k], loop[k + 1] >> \o FanTriangles(loop, k + 1)

RECURSIVE Flatten(_)
Flatten(ss) == IF ss = << >> THEN << >> ELSE Head(ss) \o Flatten(Tail(ss))

\* QVector<Vec3d> OctahedronPolygon::tesselateOneSideTriangles(tess, sidenb):
\* the triangles of the cells kept by the winding rule POSITIVE.
tesselateOneSideTriangles(contours, sidenb) ==
    LET loops == LoopsFrom(contours, sidenb, "WindingPositive", 1)
    IN  Flatten([k \in 1 .. Len(loops) |-> FanTriangles(loops[k], 2)])

\* void OctahedronPolygon::tesselate(TessWindingRule windingRule)
\* The value is sides after the call.
tesselate(sides, windingRule) ==
    [i \in Faces |->
        IF sides[i] = << >> THEN << >>
        ELSE tesselateOneSideLineLoop(sides[i], i, windingRule)]

----------------------------------------------------------------------------
(* The cached vertex arrays and the bounding cap. *)

\* bool isTriangleConvexPositive2D(a, b, c), on planar points
isTriangleConvexPositive2D(a, b, c) ==
    /\ Cross2D(Pt(a), Pt(b), Pt(c)) >= 0
    /\ Cross2D(Pt(b), Pt(c), Pt(a)) >= 0
    /\ Cross2D(Pt(c), Pt(a), Pt(b)) >= 0

\* inline void unprojectOctahedron(Vec3d& v, const Vec3d& sideDirection):
\* v[2] = (1 - sideDirection*v) / sideDirection[2]; v.normalize();
unprojectOctahedron(ev, sideDirection) ==
    LET x == ev.vertex[1]
        y == ev.vertex[2]
        z == (ev.den - sideDirection[1] * x - sideDirection[2] * y) * sideDirection[3]
    IN  normalize(<< x, y, z >>).v

RECURSIVE FillOfSide(_, _, _)
\* The loop over the triangles res of one side in updateVertexArray.
FillOfSide(res, sidenb, j) ==
    IF j + 2 > Len(res) THEN << >>
    ELSE
      LET positive == IF sidenb % 2 = 0
                      THEN isTriangleConvexPositive2D(res[j + 2], res[j + 1], res[j])
                      ELSE isTriangleConvexPositive2D(res[j], res[j + 1], res[j + 2])
          d == sideDirections(sidenb)
      IN  (IF positive
           THEN << unprojectOctahedron(res[j], d), unprojectOctahedron(res[j + 1], d),
                   unprojectOctahedron(res[j + 2], d) >>
           ELSE << >>) \o FillOfSide(res, sidenb, j + 3)

RECURSIVE OutlineSegmentsUnclosed(_, _, _, _)
OutlineSegmentsUnclosed(c, sidenb, previous, j) ==
    IF j > Len(c) - 1 THEN << >>
    ELSE
        (IF previous.edgeFlag \/ c[j + 1].edgeFlag
         THEN << unprojectOctahedron(previous, sideDirections(sidenb)),
                 unprojectOctahedron(c[j + 1], sideDirections(sidenb)) >>
         ELSE << >>) \o OutlineSegmentsUnclosed(c, sidenb, c[j + 1], j + 1)

RECURSIVE OutlineSegments(_, _, _, _)
\* for (int j=0;j<c.size()-1;++j) of the outline loop; j counts from 1 here.
OutlineSegments(c, sidenb, previous, j) ==
    IF j > Len(c) - 1 THEN
        \* Last point connects with first point
        IF previous.edgeFlag \/ c[1].edgeFlag
        THEN << unprojectOctahedron(previous, sideDirections(sidenb)),
                unprojectOctahedron(c[1], sideDirections(sidenb)) >>
        ELSE << >>
    ELSE
        (IF previous.edgeFlag \/ c[j + 1].edgeFlag
         THEN << unprojectOctahedron(previous, sideDirections(sidenb)),
                 unprojectOctahedron(c[j + 1], sideDirections(sidenb)) >>
         ELSE << >>) \o OutlineSegments(c, sidenb, c[j + 1], j + 1)

\* The outline of one side: foreach (const SubContour& c, sides[sidenb])
OutlineOfSide(contours, sidenb) ==
    Flatten([k \in 1 .. Len(contours) |->
                OutlineSegments(contours[k], sidenb, contours[k][1], 1)])

RECURSIVE VecSum(_)
\* capN.set(0,0,0); foreach v: capN+=v;
VecSum(vs) ==
    IF vs = << >> THEN ZeroVec ELSE VecAdd(FixedUnit(Head(vs)), VecSum(Tail(vs)))

RECURSIVE MinDot(_, _, _)
\* capD = 1.; foreach v: if (capN*v < capD) capD = capN*v;
MinDot(capN, vs, capD) ==
    IF vs = << >> THEN capD
    ELSE LET d == UnitDot(capN.v, Head(vs), Scale)
         IN  MinDot(capN, Tail(vs), IF ~capN.nan /\ d < capD THEN d ELSE capD)

\* capD *= capD>0 ? 0.9999999 : 1.0000001, one unit of the fixed point outward.
Nudge(capD) == IF capD = 0 THEN 0 ELSE capD - 1

\* void OctahedronPolygon::computeBoundingCap()
computeBoundingCap(outline) ==
    IF outline = << >>
    THEN [capN |-> [nan |-> FALSE, v |-> << 1, 0, 0 >>], capD |-> 2 * Scale]
    ELSE LET capN == normalize(VecSum(outline))
         IN  [capN |-> capN, capD |-> Nudge(MinDot(capN, outline, Scale))]

\* void OctahedronPolygon::updateVertexArray()
\* The value is the polygon of these sides with its caches rebuilt.
updateVertexArray(sides) ==
    LET fill == Flatten([n \in 1 .. 8 |->
                    IF sides[n - 1] = << >> THEN << >>
                    ELSE FillOfSide(tesselateOneSideTriangles(sides[n - 1], n - 1), n - 1, 1)])
        outline == Flatten([n \in 1 .. 8 |->
                    IF sides[n - 1] = << >> THEN << >>
                    ELSE OutlineOfSide(sides[n - 1], n - 1)])
        cap == computeBoundingCap(outline)
    IN  [sides |-> sides,
         fillCachedVertexArray |-> fill,
         outlineCachedVertexArray |-> outline,
         capN |-> cap.capN,
         capD |-> cap.capD]

----------------------------------------------------------------------------
(* OctahedronPolygon: constructor, boolean operations, queries, streams. *)

\* OctahedronPolygon::OctahedronPolygon(const QVector<Vec3d>& contour)
OctahedronPolygon(contour) ==
    updateVertexArray(
        tesselate(appendSubContour(EmptySides, SubContour(contour, TRUE)),
                  "WindingPositive"))

\* void OctahedronPolygon::append(const OctahedronPolygon& other)
append(sides, other) == [i \in Faces |-> sides[i] \o other.sides[i]]

\* void OctahedronPolygon::appendReversed(const OctahedronPolygon& other)
appendReversed(sides, other) ==
    [i \in Faces |->
        sides[i] \o [k \in 1 .. Len(other.sides[i]) |-> reversed(other.sides[i][k])]]

\* void OctahedronPolygon::inPlaceIntersection(const OctahedronPolygon& mpoly)
inPlaceIntersection(this, mpoly) ==
    IF ~intersectsBoundingCap(this.capN, this.capD, mpoly.capN, mpoly.capD)
    THEN this
    ELSE updateVertexArray(tesselate(append(this.sides, mpoly), "WindingAbsGeqTwo"))

inPlaceUnionStale(this, mpoly) ==
    LET intersect == intersectsBoundingCap(this.capN, this.capD, mpoly.capN, mpoly.capD)
        appended == append(this.sides, mpoly)
    IN  [this EXCEPT !.sides = IF intersect THEN tesselate(appended, "WindingPositive")
                                ELSE appended]

\* void OctahedronPolygon::inPlaceUnion(const OctahedronPolygon& mpoly)
inPlaceUnion(this, mpoly) ==
    LET intersect == intersectsBoundingCap(this.capN, this.capD, mpoly.capN, mpoly.capD)
        appended == append(this.sides, mpoly)
    IN  updateVertexArray(IF intersect THEN tesselate(appended, "WindingPositive")
                          ELSE appended)

\* void OctahedronPolygon::inPlaceSubtraction(const OctahedronPolygon& mpoly)
inPlaceSubtraction(this, mpoly) ==
    IF ~intersectsBoundingCap(this.capN, this.capD, mpoly.capN, mpoly.capD)
    THEN this
    ELSE updateVertexArray(tesselate(appendReversed(this.sides, mpoly), "WindingPositive"))

\* bool OctahedronPolygon::isEmpty() const
isEmpty(this) == \A i \in Faces : this.sides[i] = << >>

\* double OctahedronPolygon::getArea() const, in units of the area of one cell:
\* the cells of the runs below are congruent, so every triangle of the fill
\* array has the same spherical excess.
getArea(this) == Len(this.fillCachedVertexArray) \div 3

\* bool OctahedronPolygon::intersects(const OctahedronPolygon& mpoly) const
intersects(this, mpoly) ==
    IF ~intersectsBoundingCap(this.capN, this.capD, mpoly.capN, mpoly.capD)
    THEN FALSE
    ELSE ~isEmpty(inPlaceIntersection(this, mpoly))

\* bool OctahedronPolygon::contains(const OctahedronPolygon& mpoly) const
\* resOct.getArea()-getArea() < 0.00000000001, on whole numbers of cells.
contains(this, mpoly) ==
    IF ~containsBoundingCap(this.capN, this.capD, mpoly.capN, mpoly.capD)
    THEN FALSE
    ELSE getArea(inPlaceUnion(this, mpoly)) - getArea(this) <= 0

\* QDataStream& operator<<(QDataStream& out, const OctahedronPolygon& p)
WriteStream(p) == [n \in 1 .. 8 |-> p.sides[n - 1]]

\* QDataStream& operator>>(QDataStream& in, OctahedronPolygon& p)
ReadStream(stream) == updateVertexArray([i \in Faces |-> stream[i + 1]])

----------------------------------------------------------------------------
(* The polygon machine: two polygons R and S, built from contours and       *)
(* changed by the boolean operations and by reading a stream.               *)

\* Most sub-contours a side holds (an untessellated union appends without limit).
MaxContours == 2

\* The faces of the input contours: face 0, its antipode 7 and its neighbour 4.
InputFaces == {0, 4, 7}

\* The cell of face i: a triangle strictly inside the octant, near its corners.
CellContour(i) ==
    LET d == sideDirections(i)
    IN  << << 32 * d[1], d[2], 8 * d[3] >>,
           << 8 * d[1], 32 * d[2], d[3] >>,
           << d[1], 8 * d[2], 32 * d[3] >> >>

\* The input contours: each cell, in either orientation.
RegionContours ==
    UNION { { CellContour(i), Reverse(CellContour(i)) } : i \in InputFaces }

Names == {"R", "S"}

WithinBounds(p) == \A i \in Faces : Len(p.sides[i]) <= MaxContours

Init ==
    /\ \E c1, c2 \in RegionContours :
          poly = [n \in Names |-> IF n = "R" THEN OctahedronPolygon(c1)
                                  ELSE OctahedronPolygon(c2)]
    /\ inputContour = << >>
    /\ onLine = 1
    /\ result = EmptyResult
    /\ octSides = EmptySides
    /\ pc = "polygons"

SplitVars == << inputContour, onLine, result, octSides, pc >>

\* p = OctahedronPolygon(contour)
Construct(p, contour) ==
    /\ poly' = [poly EXCEPT ![p] = OctahedronPolygon(contour)]
    /\ UNCHANGED SplitVars

\* p.inPlaceUnion(q)
Union(p, q) ==
    /\ WithinBounds(inPlaceUnion(poly[p], poly[q]))
    /\ poly' = [poly EXCEPT ![p] = inPlaceUnion(poly[p], poly[q])]
    /\ UNCHANGED SplitVars

\* p.inPlaceIntersection(q)
Intersection(p, q) ==
    /\ poly' = [poly EXCEPT ![p] = inPlaceIntersection(poly[p], poly[q])]
    /\ UNCHANGED SplitVars

\* p.inPlaceSubtraction(q)
Subtraction(p, q) ==
    /\ poly' = [poly EXCEPT ![p] = inPlaceSubtraction(poly[p], poly[q])]
    /\ UNCHANGED SplitVars

\* out << q; in >> p
Deserialize(p, q) ==
    /\ poly' = [poly EXCEPT ![p] = ReadStream(WriteStream(poly[q]))]
    /\ UNCHANGED SplitVars

Next ==
    \/ \E p \in Names : \E c \in RegionContours : Construct(p, c)
    \/ \E p, q \in Names : Union(p, q)
    \/ \E p, q \in Names : Intersection(p, q)
    \/ \E p, q \in Names : Subtraction(p, q)
    \/ \E p, q \in Names : Deserialize(p, q)

Spec == Init /\ [][Next]_vars

----------------------------------------------------------------------------
(* The splitting runs: an input contour is split by one plane, a piece of   *)
(* the result is split again by the next plane in the order the             *)
(* decomposition uses (y, then x, then z), or the input contour is          *)
(* decomposed as a whole.                                                   *)

\* (1,0,0.01), (0,1,0.01), (0,0,1) and further directions on both sides of
\* every coordinate plane, two antipodal pairs among them.
VertexPool ==
    { << 100, 0, 1 >>, << 0, 100, 1 >>, << 0, 0, 1 >>,
      << -100, 0, -1 >>, << 0, -100, -1 >>,
      << -6, 8, 1 >>, << -8, -6, -1 >>, << 6, -8, 1 >> }

RECURSIVE SeqsUpTo(_, _)
SeqsUpTo(S, n) ==
    IF n = 0 THEN { << >> }
    ELSE LET shorter == SeqsUpTo(S, n - 1)
         IN  shorter \cup { Append(s, x) : s \in { t \in shorter : Len(t) = n - 1 }, x \in S }

InputContours ==
    { SubContour(vs, closed) : vs \in SeqsUpTo(VertexPool, MaxLen) \ { << >> },
                               closed \in BOOLEAN }

\* The plane the decomposition splits by after the plane of axis line.
NextLine(line) == IF line = 1 THEN 0 ELSE 2

\* The vertices of c as a new input contour.
Retag(c) == [i \in 1 .. Len(c) |-> [c[i] EXCEPT !.src = i]]

NoPolys == [n \in {"R", "S"} |-> << >>]

SplitInit0 ==
    /\ inputContour \in InputContours
    /\ onLine = 1
    /\ result = EmptyResult
    /\ octSides = EmptySides
    /\ pc = "start"
    /\ poly = NoPolys

\* splitContourByPlan(onLine, inputContour, result)
Split ==
    /\ pc = "start"
    /\ result' = splitContourByPlan(onLine, inputContour, EmptyResult)
    /\ pc' = "split"
    /\ UNCHANGED << poly, inputContour, onLine, octSides >>

\* A sub-contour of the result is split by the next plane.
Resplit ==
    /\ pc = "split"
    /\ onLine # 2
    /\ \E q \in 1 .. 2 : \E k \in 1 .. Len(result[q]) :
          inputContour' = Retag(result[q][k])
    /\ onLine' = NextLine(onLine)
    /\ result' = EmptyResult
    /\ pc' = "start"
    /\ UNCHANGED << poly, octSides >>

\* sides.resize(8); appendSubContour(inputContour)
Decompose ==
    /\ pc = "start"
    /\ onLine = 1
    /\ octSides' = appendSubContour(EmptySides, inputContour)
    /\ pc' = "appended"
    /\ UNCHANGED << poly, inputContour, onLine, result >>

SplitNext == Split \/ Resplit \/ Decompose

SplitSpec == SplitInit0 /\ [][SplitNext]_vars

----------------------------------------------------------------------------
(* The construction runs: a polygon is built from one contour that may      *)
(* cross the coordinate planes, so that its sides hold cut vertices.        *)

\* Directions on both sides of every coordinate plane.
ConstructPool ==
    { << 100, 0, 1 >>, << 0, 100, 1 >>, << -6, 8, 1 >>, << 6, -8, 1 >>, << -8, -6, -1 >> }

\* The contour c is convex in the plane of its face: it turns one way only.
IsConvex(c) ==
    LET turns == { Sign(Cross2D(Pt(c[m]), Pt(c[(m % Len(c)) + 1]),
                                Pt(c[((m + 1) % Len(c)) + 1]))) : m \in 1 .. Len(c) }
    IN  ~({-1, 1} \subseteq turns)

\* The sides the tessellator is modelled for: at most one contour on a face,
\* and that one convex.
OneConvexContourPerSide(sides) ==
    \A i \in Faces : Len(sides[i]) <= 1 /\ \A k \in 1 .. Len(sides[i]) : IsConvex(sides[i][k])

ConstructInit ==
    /\ \E vs \in SeqsUpTo(ConstructPool, MaxLen) \ { << >> } :
          inputContour = SubContour(vs, TRUE)
    /\ onLine = 1
    /\ result = EmptyResult
    /\ octSides = EmptySides
    /\ pc = "contour"
    /\ poly = NoPolys

\* R = OctahedronPolygon(contour), contour the vertices of inputContour
ConstructFromContour ==
    /\ pc = "contour"
    /\ OneConvexContourPerSide(appendSubContour(EmptySides, inputContour))
    /\ poly' = [poly EXCEPT !["R"] =
                   OctahedronPolygon([m \in 1 .. Len(inputContour) |-> inputContour[m].vertex])]
    /\ pc' = "constructed"
    /\ UNCHANGED << inputContour, onLine, result, octSides >>

ConstructNext == ConstructFromContour

ConstructSpec == ConstructInit /\ [][ConstructNext]_vars

----------------------------------------------------------------------------
(* Properties of the boolean operations, the caches and the bounding caps. *)

\* The cells a polygon covers: those of winding >= 1 among the contours of
\* their face, the rule that fills the fill array.
Covered(this) ==
    UNION { { << i, CellOf(this.sides[i][k]) >> :
                k \in { m \in 1 .. Len(this.sides[i]) :
                          Keeps("WindingPositive",
                                WindingAt(this.sides[i], i, CellOf(this.sides[i][m]))) } } :
            i \in Faces }

\* The bounding caps of the polygons p and q do not intersect.
CapsDisjoint(p, q) == ~intersectsBoundingCap(p.capN, p.capD, q.capN, q.capD)

\* The cap of an empty outline.
IsSentinel(p) == p.capN = [nan |-> FALSE, v |-> << 1, 0, 0 >>] /\ p.capD = 2 * Scale

\* The cap of a non-empty outline: a unit normal and a distance in [-1, 1].
IsRealCap(p) == ~isEmpty(p) /\ ~p.capN.nan /\ p.capD >= -Scale /\ p.capD <= Scale

\* C1: for non-empty polygons R and S whose bounding caps do not intersect,
\* R is empty when R.inPlaceIntersection(S) returns.
C1_DisjointCapsIntersectionEmpty ==
    \A p, q \in Names :
        (pc = "polygons" /\ ~isEmpty(poly[p]) /\ ~isEmpty(poly[q])
            /\ CapsDisjoint(poly[p], poly[q]))
        => isEmpty(inPlaceIntersection(poly[p], poly[q]))

\* C2: union and intersection are commutative: R.inPlaceUnion(S) and
\* S.inPlaceUnion(R) cover the same points, and so do R.inPlaceIntersection(S)
\* and S.inPlaceIntersection(R), also for disjoint caps and for an empty polygon.
C2_UnionIntersectionCommute ==
    pc = "polygons" =>
        \A p, q \in Names :
            /\ Covered(inPlaceUnion(poly[p], poly[q]))
                 = Covered(inPlaceUnion(poly[q], poly[p]))
            /\ Covered(inPlaceIntersection(poly[p], poly[q]))
                 = Covered(inPlaceIntersection(poly[q], poly[p]))

C4_ContainsItself ==
    pc = "polygons" => \A p \in Names : contains(poly[p], poly[p])

\* C5: whenever an operation has returned, the fill array, the outline array
\* and the bounding cap of a polygon are those updateVertexArray computes from
\* its sides.
C5_CachesConsistent ==
    pc = "polygons" => \A p \in Names : poly[p] = updateVertexArray(poly[p].sides)

\* A union has left a polygon on two faces, with an outline for each of them
\* and a cap computed from that outline; the other polygon is empty.
C5_Witness ==
    /\ pc = "polygons"
    /\ \E p, q \in Names :
          /\ Cardinality({ i \in Faces : poly[p].sides[i] # << >> }) = 2
          /\ Len(poly[p].outlineCachedVertexArray) = 12
          /\ Len(poly[p].fillCachedVertexArray) = 6
          /\ ~IsSentinel(poly[p])
          /\ isEmpty(poly[q]) /\ IsSentinel(poly[q])

\* C6: the cap of the empty polygon, capN = (1,0,0) and capD = 2, neither
\* intersects nor contains the cap of a non-empty polygon.
C6_SentinelNeverMatches ==
    \A p, q \in Names :
        (pc = "polygons" /\ IsSentinel(poly[p]) /\ IsRealCap(poly[q]))
        => /\ ~intersectsBoundingCap(poly[p].capN, poly[p].capD,
                                     poly[q].capN, poly[q].capD)
           /\ ~containsBoundingCap(poly[p].capN, poly[p].capD,
                                   poly[q].capN, poly[q].capD)

----------------------------------------------------------------------------
(* Properties of the decomposition and of the plane splitter. *)

\* The sign pattern of v: +1 for a coordinate >= 0, -1 for a coordinate < 0.
SignPattern(v) == [a \in 1 .. 3 |-> IF v[a] >= 0 THEN 1 ELSE -1]

\* 1 when coordinate a of v is negative, else 0.
Neg(v, a) == IF v[a] < 0 THEN 1 ELSE 0

\* The vertex records of all sub-contours of a list of sub-contours.
VerticesOf(contours) ==
    UNION { { contours[k][j] : j \in 1 .. Len(contours[k]) } : k \in 1 .. Len(contours) }

C7Contour == SubContour(<< << 100, 0, 1 >>, << 0, 100, 1 >>, << 0, 0, 1 >> >>, TRUE)

\* C7 as stated: decomposing [(1,0,0.01), (0,1,0.01), (0,0,1)] leaves sub-contours
\* on exactly the faces 0, 2, 4 and 6 and leaves the faces 1, 3, 5 and 7 empty.
C7_FourFaces ==
    (pc = "appended" /\ inputContour = C7Contour) =>
        /\ \A i \in {0, 2, 4, 6} : octSides[i] # << >>
        /\ \A i \in {1, 3, 5, 7} : octSides[i] = << >>

\* C7 as amended: decomposing [(1,0,0.01), (0,1,0.01), (0,0,1)] leaves one
\* sub-contour, made of the three input vertices in their order, on face 0 and
\* leaves the faces 1 to 7 empty.
C7_FaceZeroOnly ==
    (pc = "appended" /\ inputContour = C7Contour) =>
        /\ Len(octSides[0]) = 1
        /\ [j \in 1 .. Len(octSides[0][1]) |-> octSides[0][1][j].src] = << 1, 2, 3 >>
        /\ \A i \in 1 .. 7 : octSides[i] = << >>

C7_Witness ==
    pc = "appended" /\ inputContour = C7Contour /\ octSides[0] # << >>

\* C8: every original input vertex that ends up in sides[i] has, on each axis,
\* the sign sideDirections[i] gives, and i is 4 for a negative y, plus 2 for a
\* negative x, plus 1 for a negative z.
C8_FaceIndexMatchesTable ==
    pc = "appended" =>
        \A i \in Faces : \A ev \in VerticesOf(octSides[i]) :
            ev.src # 0 =>
                LET v == inputContour[ev.src].vertex
                IN  /\ SignPattern(v) = sideDirections(i)
                    /\ i = 4 * Neg(v, 2) + 2 * Neg(v, 1) + Neg(v, 3)

C8_Witness ==
    /\ pc = "appended"
    /\ \E i \in {1, 3, 5, 7} : \E ev \in VerticesOf(octSides[i]) : ev.src # 0
    /\ \E i \in {2, 3, 6, 7} : \E ev \in VerticesOf(octSides[i]) : ev.src # 0
    /\ \E i \in {4, 5, 6, 7} : \E ev \in VerticesOf(octSides[i]) : ev.src # 0
    /\ \E ev \in VerticesOf(octSides[0]) : ev.src # 0

\* C9: after splitContourByPlan every vertex of result[s] is an input vertex on
\* side s of the plane or a synthesized cut vertex lying on the plane, and every
\* synthesized cut vertex has edgeFlag = false.
C9_VerticesOnTheirSide ==
    pc = "split" =>
        \A s \in 0 .. 1 : \A ev \in VerticesOf(result[s + 1]) :
            \/ /\ ev.src # 0
               /\ ev.vertex = inputContour[ev.src].vertex
               /\ Neg(ev.vertex, onLine + 1) = s
            \/ /\ ev.src = 0
               /\ ev.vertex[onLine + 1] = 0
               /\ ev.edgeFlag = FALSE

C9_Witness ==
    /\ pc = "split"
    /\ \A s \in 0 .. 1 : \E ev \in VerticesOf(result[s + 1]) : ev.src # 0
    /\ \A s \in 0 .. 1 : \E ev \in VerticesOf(result[s + 1]) : ev.src = 0

\* The input contour has vertices on both sides of the plane.
Crosses == \E i, j \in 1 .. Len(inputContour) :
              Neg(inputContour[i].vertex, onLine + 1) # Neg(inputContour[j].vertex, onLine + 1)

\* Input vertex j directly follows input vertex i in one sub-contour of the
\* result; a sub-contour is closed, and when the input never crosses the plane
\* its one sub-contour closes from its last vertex to its first.
Follows(i, j) ==
    \E q \in 1 .. 2 : \E k \in 1 .. Len(result[q]) :
        LET c == result[q][k]
        IN  \E m \in 1 .. Len(c) :
               /\ c[m].src = i
               /\ \/ m < Len(c) /\ c[m + 1].src = j
                  \/ ~Crosses /\ m = Len(c) /\ c[1].src = j

\* C10: any two cyclically consecutive input vertices on the same side of the
\* plane, the last and the first among them, stay consecutive in one output
\* sub-contour.
C10_NoSplitAtStart ==
    pc = "split" =>
        \A i \in 1 .. Len(inputContour) :
            LET j == (i % Len(inputContour)) + 1
            IN  Neg(inputContour[i].vertex, onLine + 1) = Neg(inputContour[j].vertex, onLine + 1)
                    => Follows(i, j)

C10_Witness ==
    /\ pc = "split"
    /\ Crosses
    /\ Len(inputContour) >= 3
    /\ Neg(inputContour[1].vertex, onLine + 1)
          = Neg(inputContour[Len(inputContour)].vertex, onLine + 1)
    /\ Follows(Len(inputContour), 1)

\* All sub-contours of the result, those of side 0 first.
OutContours == result[1] \o result[2]

\* The segment from input vertex i to its cyclic successor crosses the plane.
CrossingAt(i) ==
    LET j == (i % Len(inputContour)) + 1
    IN  Neg(inputContour[i].vertex, onLine + 1) # Neg(inputContour[j].vertex, onLine + 1)

\* greatCircleIntersection fails on the segment from input vertex i to its
\* cyclic successor.
FailsAt(i) ==
    LET j == (i % Len(inputContour)) + 1
    IN  ~greatCircleIntersection(inputContour[i].vertex, inputContour[j].vertex, onLine).ok

\* The copies of input vertex i in the result.
CopiesOf(i) == { ev \in VerticesOf(OutContours) : ev.src = i }

\* C11: at every crossing where greatCircleIntersection fails, both endpoints
\* are kept, each on its own side, and the vertex just before the crossing has
\* edgeFlag = false in the output; and every output sub-contour of a contour
\* that crossed the plane ends in a vertex with edgeFlag = false.
C11_FailedCrossingFlagged ==
    pc = "split" =>
        /\ \A i \in 1 .. Len(inputContour) :
              (CrossingAt(i) /\ FailsAt(i)) =>
                  LET j == (i % Len(inputContour)) + 1
                  IN  /\ \E ev \in VerticesOf(result[Neg(inputContour[i].vertex, onLine + 1) + 1]) :
                            ev.src = i
                      /\ \E ev \in VerticesOf(result[Neg(inputContour[j].vertex, onLine + 1) + 1]) :
                            ev.src = j
                      /\ \A ev \in CopiesOf(i) : ev.edgeFlag = FALSE
        /\ Crosses =>
              \A k \in 1 .. Len(OutContours) : Last(OutContours[k]).edgeFlag = FALSE

\* The positions << k, m >> of the vertices of the result.
Positions ==
    UNION { { << k, m >> : m \in 1 .. Len(OutContours[k]) } : k \in 1 .. Len(OutContours) }

\* The crossings of the cyclic input contour where the intersection succeeds.
SuccessfulCrossings ==
    { i \in 1 .. Len(inputContour) : CrossingAt(i) /\ ~FailsAt(i) }

\* C13: splitContourByPlan conserves vertices: every input vertex appears exactly
\* once in the result; every crossing whose intersection succeeds adds two cut
\* vertices, one ending a sub-contour and one starting a sub-contour, and a
\* failed one adds none; and the result holds as many sub-contours as the cyclic
\* contour has crossings, or one when it has none.
C13_VerticesConserved ==
    pc = "split" =>
        /\ \A i \in 1 .. Len(inputContour) :
              Cardinality({ pos \in Positions : OutContours[pos[1]][pos[2]].src = i }) = 1
        /\ Cardinality({ pos \in Positions : OutContours[pos[1]][pos[2]].src = 0 })
              = 2 * Cardinality(SuccessfulCrossings)
        /\ Cardinality({ pos \in Positions : /\ OutContours[pos[1]][pos[2]].src = 0
                                             /\ pos[2] = Len(OutContours[pos[1]]) })
              = Cardinality(SuccessfulCrossings)
        /\ Cardinality({ pos \in Positions : /\ OutContours[pos[1]][pos[2]].src = 0
                                             /\ pos[2] = 1 })
              = Cardinality(SuccessfulCrossings)
        /\ Len(OutContours) =
              IF Crosses
              THEN Cardinality({ i \in 1 .. Len(inputContour) : CrossingAt(i) })
              ELSE 1

\* A contour of three vertices was split at one crossing whose intersection
\* succeeded and at one whose intersection failed.
C13_Witness ==
    /\ pc = "split"
    /\ Len(inputContour) = 3
    /\ \E i \in 1 .. 3 : CrossingAt(i) /\ FailsAt(i)
    /\ SuccessfulCrossings # {}
    /\ Len(OutContours) = 2

\* The segments of the closed sub-contour c of face sidenb that the outline
\* holds: the one from each vertex to its cyclic successor, if either has its
\* edgeFlag set.
FlaggedSegments(c, sidenb) ==
    Flatten([m \in 1 .. Len(c) |->
        LET next == (m % Len(c)) + 1
        IN  IF c[m].edgeFlag \/ c[next].edgeFlag
            THEN << unprojectOctahedron(c[m], sideDirections(sidenb)),
                    unprojectOctahedron(c[next], sideDirections(sidenb)) >>
            ELSE << >>])

\* Segment m of sub-contour k of face i joins two vertices without edgeFlag.
Unflagged(sides, i, k, m) ==
    LET c == sides[i][k]
    IN  ~c[m].edgeFlag /\ ~c[(m % Len(c)) + 1].edgeFlag

\* C12: the outline cache holds, for every sub-contour of every face in order,
\* the segment between cyclically consecutive vertices once if one of the two
\* has its edgeFlag set and not at all if neither has, two vertices a segment.
C12_OutlineHoldsFlaggedSegments ==
    pc = "constructed" =>
        /\ poly["R"].outlineCachedVertexArray =
              Flatten([n \in 1 .. 8 |->
                  Flatten([k \in 1 .. Len(poly["R"].sides[n - 1]) |->
                      FlaggedSegments(poly["R"].sides[n - 1][k], n - 1)])])
        /\ Len(poly["R"].outlineCachedVertexArray) % 2 = 0

\* A constructed polygon has a sub-contour with a segment between two vertices
\* without edgeFlag, left out, and a closing segment with a flagged end, held.
C12_Witness ==
    /\ pc = "constructed"
    /\ \E i \in Faces : \E k \in 1 .. Len(poly["R"].sides[i]) :
          LET c == poly["R"].sides[i][k]
          IN  /\ Len(c) >= 3
              /\ \E m \in 1 .. Len(c) - 1 : Unflagged(poly["R"].sides, i, k, m)
              /\ ~Unflagged(poly["R"].sides, i, k, Len(c))
              /\ Len(poly["R"].outlineCachedVertexArray) > 0

====
